---- MODULE Spec2Model ----
(***************************************************************************)
(* Aryzen finance assistant: guardrails, retrieval and response formatting *)
(* of the chatbot backend, in its two revisions src/bot.py and src/app.py. *)
(*                                                                         *)
(* Python strings are sequences of one-character strings, so that strip,   *)
(* lower, substring test, replace, split, rstrip and join are computed as  *)
(* Python computes them.                                                   *)
(***************************************************************************)
EXTENDS Integers, Sequences, FiniteSets, TLC

VARIABLES
    rev,                 \* which revision of the backend runs: "bot" or "app"
    OPENROUTER_API_KEY,  \* the module-level credential: None or a key
    knowledge_base,      \* the corpus directory: path -> file content
    collection,          \* the Chroma collection: set of [id, document]
    loaded,              \* what load_documents returned at the latest ingestion
    pc,                  \* caller's position: "idle", "answered", "ingested", ...
    query,               \* the argument of the latest chatbot(query)
    result,              \* how the latest call ended (return value or raise)
    calls,               \* external calls of the latest chatbot run, in order
    messages,            \* the message sequence built by the latest run
    response,            \* what the completion endpoint answered in that run
    raw_text,            \* format_response: its argument
    formatted            \* format_response: its return value

vars == <<rev, OPENROUTER_API_KEY, knowledge_base, collection, loaded, pc, query,
          result, calls, messages, response, raw_text, formatted>>

-----------------------------------------------------------------------------
(* Python str primitives *)

\* str.isspace() for one character (the whitespace str.strip() removes)
IsSpace(c) == c \in {" ", "\n", "\t", "\r"}

\* s[i:j] with Python's 0-based, end-exclusive slice written 1-based inclusive
Slice(s, i, j) == IF j < i THEN <<>> ELSE SubSeq(s, i, j)

\* sub in s
Contains(s, sub) ==
    \E i \in 1..(Len(s) - Len(sub) + 1) : SubSeq(s, i, i + Len(sub) - 1) = sub

\* s.startswith(sub) at position i (1-based)
MatchAt(s, sub, i) ==
    /\ i + Len(sub) - 1 <= Len(s)
    /\ SubSeq(s, i, i + Len(sub) - 1) = sub

\* s.endswith(sub)
EndsWith(s, sub) ==
    /\ Len(sub) <= Len(s)
    /\ SubSeq(s, Len(s) - Len(sub) + 1, Len(s)) = sub

RECURSIVE LStrip(_)
LStrip(s) == IF s # <<>> /\ IsSpace(Head(s)) THEN LStrip(Tail(s)) ELSE s

RECURSIVE RStrip(_)
RStrip(s) ==
    IF s # <<>> /\ IsSpace(s[Len(s)]) THEN RStrip(SubSeq(s, 1, Len(s) - 1)) ELSE s

\* s.strip()
Strip(s) == RStrip(LStrip(s))

\* s.rstrip(".")
RECURSIVE RStripDot(_)
RStripDot(s) ==
    IF s # <<>> /\ s[Len(s)] = "." THEN RStripDot(SubSeq(s, 1, Len(s) - 1)) ELSE s

\* str.lower() for one character
LowerChar(c) ==
    CASE c = "A" -> "a" [] c = "B" -> "b" [] c = "C" -> "c" [] c = "D" -> "d"
      [] c = "E" -> "e" [] c = "F" -> "f" [] c = "G" -> "g" [] c = "H" -> "h"
      [] c = "I" -> "i" [] c = "J" -> "j" [] c = "K" -> "k" [] c = "L" -> "l"
      [] c = "M" -> "m" [] c = "N" -> "n" [] c = "O" -> "o" [] c = "P" -> "p"
      [] c = "Q" -> "q" [] c = "R" -> "r" [] c = "S" -> "s" [] c = "T" -> "t"
      [] c = "U" -> "u" [] c = "V" -> "v" [] c = "W" -> "w" [] c = "X" -> "x"
      [] c = "Y" -> "y" [] c = "Z" -> "z" [] OTHER -> c

\* s.lower()
Lower(s) == [i \in 1..Len(s) |-> LowerChar(s[i])]

\* s.replace(old, new): leftmost non-overlapping occurrences, one pass
RECURSIVE Replace(_, _, _)
Replace(s, old, new) ==
    IF s = <<>> THEN <<>>
    ELSE IF MatchAt(s, old, 1)
         THEN new \o Replace(Slice(s, Len(old) + 1, Len(s)), old, new)
         ELSE <<Head(s)>> \o Replace(Tail(s), old, new)

\* index of the leftmost occurrence of sep in s at or after i, 0 when none
RECURSIVE Find(_, _, _)
Find(s, sep, i) ==
    IF i + Len(sep) - 1 > Len(s) THEN 0
    ELSE IF MatchAt(s, sep, i) THEN i ELSE Find(s, sep, i + 1)

\* s.split(sep): a sequence of strings, empty pieces kept
RECURSIVE Split(_, _)
Split(s, sep) ==
    LET k == Find(s, sep, 1) IN
    IF k = 0 THEN <<s>>
    ELSE <<Slice(s, 1, k - 1)>> \o Split(Slice(s, k + Len(sep), Len(s)), sep)

\* sep.join(parts)
RECURSIVE Join(_, _)
Join(parts, sep) ==
    IF parts = <<>> THEN <<>>
    ELSE IF Len(parts) = 1 THEN parts[1]
    ELSE parts[1] \o sep \o Join(Tail(parts), sep)

\* [s.strip() for s in parts if s.strip()]
RECURSIVE FilterStripped(_)
FilterStripped(parts) ==
    IF parts = <<>> THEN <<>>
    ELSE IF Strip(Head(parts)) # <<>>
         THEN <<Strip(Head(parts))>> \o FilterStripped(Tail(parts))
         ELSE FilterStripped(Tail(parts))

-----------------------------------------------------------------------------
(* format_response *)

NL3 == <<"\n", "\n", "\n">>
NL2 == <<"\n", "\n">>
DotSpace == <<".", " ">>
Hashes == <<"#", "#", "#">>
DashBullet == <<"\n", "-", " ">>
StarBullet == <<"\n", "*", " ">>

\* "No response from model."
NoResponse ==
    <<"N", "o", " ", "r", "e", "s", "p", "o", "n", "s", "e", " ", "f", "r", "o",
      "m", " ", "m", "o", "d", "e", "l", ".">>

\* "### Answer\n\n"
AnswerHeading == <<"#", "#", "#", " ", "A", "n", "s", "w", "e", "r", "\n", "\n">>

\* "\n### Details\n\n"
DetailsHeading ==
    <<"\n", "#", "#", "#", " ", "D", "e", "t", "a", "i", "l", "s", "\n", "\n">>

\* the test that the text is "already Markdown/bullets"
HasMarkdown(text) ==
    Contains(text, Hashes) \/ Contains(text, DashBullet) \/ Contains(text, StarBullet)

\* while "\n\n\n" in text: text = text.replace("\n\n\n", "\n\n")
RECURSIVE CollapseBlankLines(_)
CollapseBlankLines(text) ==
    IF Contains(text, NL3) THEN CollapseBlankLines(Replace(text, NL3, NL2)) ELSE text

\* the sentence restructuring of a text without markdown markers
Structure(text) ==
    LET sentences == FilterStripped(Split(text, DotSpace)) IN
    IF sentences = <<>> THEN text
    ELSE LET short == RStripDot(sentences[1])
             remaining == Strip(Join(Tail(sentences), DotSpace))
             md == AnswerHeading \o short \o <<".", "\n">>
         IN  IF remaining # <<>> THEN md \o DetailsHeading \o remaining ELSE md

format_response(raw) ==
    IF raw = <<>> THEN NoResponse
    ELSE LET text == Strip(raw) IN
         IF HasMarkdown(text) THEN CollapseBlankLines(text) ELSE Structure(text)

-----------------------------------------------------------------------------
(* Guardrail: the term lists of the two revisions *)

banned_bot ==
    <<<<"b", "u", "y">>,
      <<"s", "e", "l", "l">>,
      <<"w", "h", "i", "c", "h", " ", "s", "t", "o", "c", "k">>,
      <<"p", "r", "e", "d", "i", "c", "t", "i", "o", "n">>,
      <<"f", "u", "t", "u", "r", "e", " ", "p", "r", "i", "c", "e">>,
      <<"b", "e", "s", "t", " ", "s", "t", "o", "c", "k">>,
      <<"c", "r", "y", "p", "t", "o">>,
      <<"b", "i", "t", "c", "o", "i", "n">>,
      <<"e", "t", "h", "e", "r", "e", "u", "m">>,
      <<"p", "o", "r", "t", "f", "o", "l", "i", "o">>,
      <<"a", "d", "v", "i", "c", "e">>,
      <<"s", "u", "g", "g", "e", "s", "t">>,
      <<"r", "e", "c", "o", "m", "m", "e", "n", "d">>,
      <<"s", "h", "o", "u", "l", "d", " ", "i">>,
      <<"l", "o", "a", "n">>,
      <<"t", "a", "x">>,
      <<"i", "n", "s", "u", "r", "a", "n", "c", "e">>,
      <<"p", "o", "l", "i", "c", "y">>,
      <<"p", "r", "e", "d", "i", "c", "t">>>>

finance_terms_bot ==
    <<<<"n", "a", "v">>,
      <<"i", "n", "f", "l", "a", "t", "i", "o", "n">>,
      <<"d", "e", "f", "l", "a", "t", "i", "o", "n">>,
      <<"a", "s", "s", "e", "t", "s">>,
      <<"l", "i", "a", "b", "i", "l", "i", "t", "i", "e", "s">>,
      <<"a", "u", "m">>,
      <<"c", "a", "p", "i", "t", "a", "l">>,
      <<"r", "i", "s", "k">>,
      <<"r", "e", "t", "u", "r", "n">>,
      <<"v", "a", "l", "u", "a", "t", "i", "o", "n">>,
      <<"e", "q", "u", "i", "t", "y">>,
      <<"b", "o", "n", "d">>,
      <<"f", "u", "n", "d">>,
      <<"m", "a", "r", "k", "e", "t", " ", "c", "a", "p">>,
      <<"e", "t", "f">>,
      <<"m", "u", "t", "u", "a", "l", " ", "f", "u", "n", "d">>,
      <<"e", "x", "p", "e", "n", "s", "e", " ", "r", "a", "t", "i", "o">>>>

aryzen_terms_bot ==
    <<<<"a", "r", "y", "z", "e", "n">>,
      <<"a", "r", "y", "z", "e", "n", " ", "c", "a", "p", "i", "t", "a", "l">>,
      <<"a", "r", "y", "z", "e", "n", " ", "a", "d", "v", "i", "s", "o", "r", "s">>,
      <<"a", "r", "y", "z", "e", "n", " ", "c", "a", "p", "i", "t", "a", "l", " ", "a", "d", "v", "i", "s", "o", "r", "s">>,
      <<"a", "r", "y", "z", "e", "n", " ", "s", "e", "r", "v", "i", "c", "e", "s">>,
      <<"a", "r", "y", "z", "e", "n", " ", "t", "e", "a", "m">>>>

banned_app ==
    <<<<"b", "u", "y">>,
      <<"s", "e", "l", "l">>,
      <<"s", "t", "o", "c", "k">>,
      <<"p", "r", "e", "d", "i", "c", "t", "i", "o", "n">>,
      <<"f", "u", "t", "u", "r", "e", " ", "p", "r", "i", "c", "e">>,
      <<"c", "r", "y", "p", "t", "o">>,
      <<"b", "i", "t", "c", "o", "i", "n">>,
      <<"e", "t", "h", "e", "r", "e", "u", "m">>,
      <<"p", "o", "r", "t", "f", "o", "l", "i", "o">>,
      <<"a", "d", "v", "i", "c", "e">>,
      <<"r", "e", "c", "o", "m", "m", "e", "n", "d">>,
      <<"s", "h", "o", "u", "l", "d", " ", "i">>,
      <<"l", "o", "a", "n">>,
      <<"t", "a", "x">>,
      <<"i", "n", "s", "u", "r", "a", "n", "c", "e">>,
      <<"p", "o", "l", "i", "c", "y">>,
      <<"p", "r", "e", "d", "i", "c", "t">>>>

finance_terms_app ==
    <<<<"n", "a", "v">>,
      <<"i", "n", "f", "l", "a", "t", "i", "o", "n">>,
      <<"d", "e", "f", "l", "a", "t", "i", "o", "n">>,
      <<"a", "s", "s", "e", "t", "s">>,
      <<"l", "i", "a", "b", "i", "l", "i", "t", "i", "e", "s">>,
      <<"a", "u", "m">>,
      <<"c", "a", "p", "i", "t", "a", "l">>,
      <<"r", "i", "s", "k">>,
      <<"v", "a", "l", "u", "a", "t", "i", "o", "n">>,
      <<"e", "q", "u", "i", "t", "y">>,
      <<"b", "o", "n", "d">>,
      <<"f", "u", "n", "d">>,
      <<"m", "a", "r", "k", "e", "t", " ", "c", "a", "p">>,
      <<"e", "t", "f">>,
      <<"m", "u", "t", "u", "a", "l", " ", "f", "u", "n", "d">>,
      <<"e", "x", "p", "e", "n", "s", "e", " ", "r", "a", "t", "i", "o">>>>

aryzen_terms_app ==
    <<<<"a", "r", "y", "z", "e", "n">>,
      <<"a", "r", "y", "z", "e", "n", " ", "c", "a", "p", "i", "t", "a", "l">>,
      <<"a", "r", "y", "z", "e", "n", " ", "a", "d", "v", "i", "s", "o", "r", "s">>,
      <<"a", "r", "y", "z", "e", "n", " ", "t", "e", "a", "m">>>>

banned(r) == IF r = "bot" THEN banned_bot ELSE banned_app
finance_terms(r) == IF r = "bot" THEN finance_terms_bot ELSE finance_terms_app
aryzen_terms(r) == IF r = "bot" THEN aryzen_terms_bot ELSE aryzen_terms_app

\* any(t in q for t in terms)
AnyIn(terms, q) == \E i \in 1..Len(terms) : Contains(q, terms[i])

\* "You are a corporate assistant for Aryzen Capital Advisors LL..."
system_msg ==
    <<"Y", "o", "u", " ", "a", "r", "e", " ", "a", " ", "c", "o", "r", "p", "o", "r",
      "a", "t", "e", " ", "a", "s", "s", "i", "s", "t", "a", "n", "t", " ", "f", "o",
      "r", " ", "A", "r", "y", "z", "e", "n", " ", "C", "a", "p", "i", "t", "a", "l",
      " ", "A", "d", "v", "i", "s", "o", "r", "s", " ", "L", "L", "P", ".", " ", "O",
      "N", "L", "Y", " ", "a", "n", "s", "w", "e", "r", " ", "q", "u", "e", "s", "t",
      "i", "o", "n", "s", " ", "a", "b", "o", "u", "t", " ", "A", "r", "y", "z", "e",
      "n", " ", "o", "r", " ", "b", "a", "s", "i", "c", " ", "f", "i", "n", "a", "n",
      "c", "i", "a", "l", " ", "t", "e", "r", "m", "i", "n", "o", "l", "o", "g", "y",
      ".", " ", "D", "o", " ", "N", "O", "T", " ", "g", "i", "v", "e", " ", "i", "n",
      "v", "e", "s", "t", "m", "e", "n", "t", " ", "a", "d", "v", "i", "c", "e", " ",
      "o", "r", " ", "p", "r", "e", "d", "i", "c", "t", "i", "o", "n", "s", ".">>

\* "You are a corporate assistant for Aryzen Capital Advisors LL..."
system_message ==
    <<"Y", "o", "u", " ", "a", "r", "e", " ", "a", " ", "c", "o", "r", "p", "o", "r",
      "a", "t", "e", " ", "a", "s", "s", "i", "s", "t", "a", "n", "t", " ", "f", "o",
      "r", " ", "A", "r", "y", "z", "e", "n", " ", "C", "a", "p", "i", "t", "a", "l",
      " ", "A", "d", "v", "i", "s", "o", "r", "s", " ", "L", "L", "P", ".", " ", "O",
      "N", "L", "Y", " ", "a", "n", "s", "w", "e", "r", " ", "q", "u", "e", "s", "t",
      "i", "o", "n", "s", " ", "a", "b", "o", "u", "t", " ", "A", "r", "y", "z", "e",
      "n", " ", "o", "r", " ", "b", "a", "s", "i", "c", " ", "f", "i", "n", "a", "n",
      "c", "e", " ", "t", "e", "r", "m", "s", ".", " ", "N", "E", "V", "E", "R", " ",
      "p", "r", "o", "v", "i", "d", "e", " ", "i", "n", "v", "e", "s", "t", "m", "e",
      "n", "t", " ", "a", "d", "v", "i", "c", "e", ",", " ", "p", "r", "e", "d", "i",
      "c", "t", "i", "o", "n", "s", ",", " ", "o", "r", " ", "r", "e", "c", "o", "m",
      "m", "e", "n", "d", "a", "t", "i", "o", "n", "s", ".">>

\* "Context:\n"
ContextPrefix == <<"C", "o", "n", "t", "e", "x", "t", ":", "\n">>

-----------------------------------------------------------------------------
(* Values *)

Revisions == {"bot", "app"}

\* OPENROUTER_API_KEY = None, or the key load_openrouter_key() found
None == "None"
ApiKey == "sk-or-key"

\* how a call ended: return <msg + text>, or an exception left the function
NoResult == [kind |-> "none", msg |-> "", text |-> <<>>]
Return(m, t) == [kind |-> "return", msg |-> m, text |-> t]
Raise(exc) == [kind |-> "raise", msg |-> exc, text |-> <<>>]

\* one external call of a run, with how it ended
Call(op, outcome) == [op |-> op, outcome |-> outcome]

\* the fixed replies (the refusal's typographic apostrophe and dash in ASCII)
PleaseAsk == "Please ask a question related to Aryzen or basic finance."
PolicyRefusal == "I'm sorry - I cannot provide investment advice or predictions."
OutOfScope_bot ==
    "I can only answer questions related to **Aryzen Capital Advisors** and basic financial concepts."
OutOfScope_app ==
    "I answer only questions related to **Aryzen** or **basic finance concepts**."
\* (the backquotes around .env written as apostrophes)
KeyMissing_bot == "API key missing. Create '.env' with OPENROUTER_API_KEY=... "
KeyMissing_app == "API key missing. Add OPENROUTER_API_KEY in Streamlit Secrets."

-----------------------------------------------------------------------------
(* chatbot: the guardrail *)

\* The guardrail with the scope test made first: a scope term lets the query
\* through before the deny list is consulted.
Guardrail_ScopeFirst(r, q) ==
    IF q = <<>> \/ Strip(q) = <<>> THEN "EMPTY"
    ELSE IF AnyIn(finance_terms(r), Lower(q)) \/ AnyIn(aryzen_terms(r), Lower(q))
         THEN "ALLOWED"
    ELSE IF AnyIn(banned(r), Lower(q)) THEN "DENIED"
    ELSE "OUT_OF_SCOPE"

\* The guardrail with the scope test asking for a finance term and an Aryzen
\* term (the code's 'and' of two negations turned into an 'or').
Guardrail_ScopeOr(r, q) ==
    IF q = <<>> \/ Strip(q) = <<>> THEN "EMPTY"
    ELSE IF AnyIn(banned(r), Lower(q)) THEN "DENIED"
    ELSE IF ~AnyIn(finance_terms(r), Lower(q)) \/ ~AnyIn(aryzen_terms(r), Lower(q))
         THEN "OUT_OF_SCOPE"
    ELSE "ALLOWED"

\* The early returns of chatbot, in the order the code makes them:
\* blank query, banned term, no finance or Aryzen term.
Guardrail(r, q) ==
    IF q = <<>> \/ Strip(q) = <<>> THEN "EMPTY"
    ELSE IF AnyIn(banned(r), Lower(q)) THEN "DENIED"
    ELSE IF ~AnyIn(finance_terms(r), Lower(q)) /\ ~AnyIn(aryzen_terms(r), Lower(q))
         THEN "OUT_OF_SCOPE"
    ELSE "ALLOWED"

\* the string each early return gives
Refusal(r, g) ==
    IF g = "EMPTY" THEN PleaseAsk
    ELSE IF g = "DENIED" THEN PolicyRefusal
    ELSE IF r = "bot" THEN OutOfScope_bot ELSE OutOfScope_app

-----------------------------------------------------------------------------
(* get_context *)

n_results == 4

Min(a, b) == IF a < b THEN a ELSE b

\* What collection.query can return for a collection: its n_results nearest
\* documents in similarity order. The embedding is opaque, so every order of
\* every choice of Min(n_results, count) documents is possible.
Rankings(coll, n) ==
    LET k == Min(n, Cardinality(coll)) IN
    { h \in UNION { [1..k -> {e.document : e \in coll}] } :
        /\ \A i, j \in 1..k : i # j => h[i] # h[j] }

\* how embedder.encode(query) can end
EmbedOutcomes == {"ok", "fail"}

\* how collection.query can end: a result, a TypeError (bot.py then calls it
\* again, and that call gives a result or raises), any other exception
IndexOutcomes == {"ok", "type_error_then_ok", "type_error_then_raise", "error"}

Retrieved(raised, exc, docs, cs) ==
    [raised |-> raised, exc |-> exc, docs |-> docs, calls |-> cs]

\* the third clause of the comprehension: docs kept non-empty (app.py)
RECURSIVE FilterNonEmpty(_)
FilterNonEmpty(docs) ==
    IF docs = <<>> THEN <<>>
    ELSE IF Head(docs) # <<>> THEN <<Head(docs)>> \o FilterNonEmpty(Tail(docs))
         ELSE FilterNonEmpty(Tail(docs))

\* bot.py also returns [] when 'not collection'; a Chroma collection object
\* is always truthy, so only the empty query takes that return.
get_context_bot(q, emb, idx, hits) ==
    IF q = <<>> THEN Retrieved(FALSE, "", <<>>, <<>>)
    ELSE IF emb = "fail"
         THEN Retrieved(TRUE, "EmbeddingError", <<>>, <<Call("embed", "fail")>>)
    ELSE IF idx = "ok"
         THEN Retrieved(FALSE, "", FilterStripped(hits),
                        <<Call("embed", "ok"), Call("query", "ok")>>)
    ELSE IF idx = "type_error_then_ok"
         THEN Retrieved(FALSE, "", FilterStripped(hits),
                        <<Call("embed", "ok"), Call("query", "fail"), Call("query", "ok")>>)
    ELSE IF idx = "type_error_then_raise"
         THEN Retrieved(TRUE, "TypeError", <<>>,
                        <<Call("embed", "ok"), Call("query", "fail"), Call("query", "fail")>>)
    ELSE Retrieved(TRUE, "IndexError", <<>>,
                   <<Call("embed", "ok"), Call("query", "fail")>>)

get_context_app(q, emb, idx, hits) ==
    IF q = <<>> THEN Retrieved(FALSE, "", <<>>, <<>>)
    ELSE IF emb = "fail"
         THEN Retrieved(TRUE, "EmbeddingError", <<>>, <<Call("embed", "fail")>>)
    ELSE IF idx = "ok"
         THEN Retrieved(FALSE, "", FilterNonEmpty(hits),
                        <<Call("embed", "ok"), Call("query", "ok")>>)
    ELSE Retrieved(FALSE, "", <<>>, <<Call("embed", "ok"), Call("query", "fail")>>)

get_context(r, q, emb, idx, hits) ==
    IF r = "bot" THEN get_context_bot(q, emb, idx, hits)
    ELSE get_context_app(q, emb, idx, hits)

\* the outcomes of collection.query each revision tells apart
IndexOutcomesOf(r) == IF r = "bot" THEN IndexOutcomes ELSE {"ok", "error"}

-----------------------------------------------------------------------------
(* chatbot: messages and the completion call *)

Message(role, content) == [role |-> role, content |-> content]

\* [system prompt, optional system context, user query]
BuildMessages(r, q, context_docs) ==
    LET context_text == IF context_docs # <<>> THEN Join(context_docs, NL2) ELSE <<>>
        prompt == IF r = "bot" THEN system_msg ELSE system_message
    IN  <<Message("system", prompt)>>
        \o (IF context_text # <<>>
            THEN <<Message("system", ContextPrefix \o context_text)>> ELSE <<>>)
        \o <<Message("user", q)>>

\* What the completion endpoint can do to one request.
\*   network_error  requests.post raises (timeout, connection)
\*   not_json       a body that resp.json() cannot parse; text is the body
\*   json           a parsed body, of one of the shapes below; text is the
\*                  completion content (success) or the error message (error)
NoReply == [kind |-> "none", shape |-> "", text |-> <<>>]
Reply(kind, shape, text) == [kind |-> kind, shape |-> shape, text |-> text]

\* "NAV is net asset value."
NavAnswer ==
    <<"N", "A", "V", " ", "i", "s", " ", "n", "e", "t", " ", "a", "s", "s", "e", "t",
      " ", "v", "a", "l", "u", "e", ".">>

\* "### Answer\n\nX\n\n\n\nY"
SpacedAnswer ==
    <<"#", "#", "#", " ", "A", "n", "s", "w", "e", "r", "\n", "\n", "X", "\n", "\n",
      "\n", "\n", "Y">>

\* completion texts the endpoint may produce
Contents == {NavAnswer, SpacedAnswer, <<"A", ".", " ", "B">>, <<" ">>, <<>>}

\* "bad key"
ErrorText == <<"b", "a", "d", " ", "k", "e", "y">>

Replies ==
    {Reply("network_error", "", <<>>), Reply("not_json", "", ErrorText)}
    \cup {Reply("json", "success", c) : c \in Contents}
    \cup {Reply("json", "error", ErrorText),         \* {"error": {"message": ...}}
          Reply("json", "error_no_message", <<>>),   \* {"error": "..."}
          Reply("json", "no_choices", <<>>),         \* {"id": ...}
          Reply("json", "content_null", <<>>)}       \* content: null

\* bot.py from requests.post to the end
completion_bot(resp) ==
    IF resp.kind = "network_error" THEN Return("Network error: ", <<>>)
    ELSE IF resp.kind = "not_json" THEN Return("", resp.text)
    ELSE IF resp.shape = "success" THEN Return("", format_response(resp.text))
    ELSE IF resp.shape = "content_null" THEN Return("", format_response(<<>>))
    ELSE Return("Unexpected response: ", <<>>)

\* app.py from requests.post to the end
completion_app(resp) ==
    IF resp.kind = "network_error" THEN Return("Request failed: ", <<>>)
    ELSE IF resp.kind = "not_json" THEN Return("Request failed: ", <<>>)
    ELSE IF resp.shape = "error" THEN Return("API Error: ", resp.text)
    ELSE IF resp.shape = "error_no_message" THEN Return("Request failed: ", <<>>)
    ELSE Return("RAW API RESPONSE:\n\n", <<>>)

completion(r, resp) == IF r = "bot" THEN completion_bot(resp) ELSE completion_app(resp)

-----------------------------------------------------------------------------
(* The corpus directory, load_documents and ingest_documents *)

\* "knowledge_base/a.txt", "knowledge_base/b.md", "knowledge_base/c.csv"
FileA == <<"k", "n", "o", "w", "l", "e", "d", "g", "e", "_", "b", "a", "s", "e", "/", "a", ".", "t", "x", "t">>
FileB == <<"k", "n", "o", "w", "l", "e", "d", "g", "e", "_", "b", "a", "s", "e", "/", "b", ".", "m", "d">>
FileC == <<"k", "n", "o", "w", "l", "e", "d", "g", "e", "_", "b", "a", "s", "e", "/", "c", ".", "c", "s", "v">>

Files == {FileA, FileB, FileC}

\* the order in which the directory lists its files
FileOrder == <<FileA, FileB, FileC>>

\* the suffixes of the glob patterns "*.txt", "*.md", "*.json"
patterns == <<<<".", "t", "x", "t">>, <<".", "m", "d">>, <<".", "j", "s", "o", "n">>>>

\* a file of the corpus: absent, unreadable (open or decode fails), or text
Absent == [st |-> "absent", text |-> <<>>]
Unreadable == [st |-> "unreadable", text |-> <<>>]
TextFile(t) == [st |-> "ok", text |-> t]

\* "abc", " abcde\n", "abcdef", "  NAV fund \n"
TextShort == <<"a", "b", "c">>
TextFive == <<" ", "a", "b", "c", "d", "e", "\n">>
TextSix == <<"a", "b", "c", "d", "e", "f">>
TextPadded == <<" ", " ", "N", "A", "V", " ", "f", "u", "n", "d", " ", "\n">>

FileStates ==
    {Absent, Unreadable} \cup {TextFile(t) : t \in {TextShort, TextFive, TextSix, TextPadded}}

\* a text is kept when len(text.strip()) > MinLength
MinLength == 5

Entry(id, document) == [id |-> id, document |-> document]

\* the files glob finds for one pattern, in listing order, read and filtered
RECURSIVE LoadPattern(_, _, _)
LoadPattern(kb, suffix, i) ==
    IF i > Len(FileOrder) THEN <<>>
    ELSE LET file == FileOrder[i]
             text == Strip(kb[file].text)
         IN  (IF /\ kb[file].st # "absent"
                 /\ EndsWith(file, suffix)
                 /\ kb[file].st = "ok"
                 /\ Len(text) > MinLength
              THEN <<Entry(Replace(file, <<"/">>, <<"_">>), text)>>
              ELSE <<>>)
             \o LoadPattern(kb, suffix, i + 1)

\* (ids, docs) as one sequence of (id, document) pairs
RECURSIVE LoadPatterns(_, _)
LoadPatterns(kb, p) ==
    IF p > Len(patterns) THEN <<>>
    ELSE LoadPattern(kb, patterns[p], 1) \o LoadPatterns(kb, p + 1)

load_documents(kb) == LoadPatterns(kb, 1)

Range(s) == {s[i] : i \in 1..Len(s)}
Ids(entries) == {e.id : e \in entries}

\* collection.add when an id is already stored: the Chroma release decides;
\* releases either keep the stored entry and add the rest, or raise and add none
AddOutcomes == {"skip_existing", "reject"}

\* collection.add(ids, documents, embeddings): never removes, never overwrites
Add(coll, entries, dup) ==
    IF Ids(coll) \cap Ids(Range(entries)) = {} THEN coll \cup Range(entries)
    ELSE IF dup = "skip_existing"
         THEN coll \cup {e \in Range(entries) : e.id \notin Ids(coll)}
    ELSE coll

\* the collection after the ingestion that module import runs on an empty one
StartupCollection(kb) == Add({}, load_documents(kb), "skip_existing")

\* ingest_documents(): load, return early when nothing was loaded, embed, add
ingest_documents ==
    LET docs == load_documents(knowledge_base) IN
    /\ loaded' = docs
    /\ IF docs = <<>>
       THEN /\ collection' = collection
            /\ pc' = "ingested"
       ELSE \E emb \in EmbedOutcomes, dup \in AddOutcomes :
            IF emb = "fail"
            THEN /\ collection' = collection
                 /\ pc' = "ingest_raised"
            ELSE /\ collection' = Add(collection, docs, dup)
                 /\ pc' = IF /\ dup = "reject"
                             /\ Ids(collection) \cap Ids(Range(docs)) # {}
                          THEN "ingest_raised" ELSE "ingested"
    /\ UNCHANGED <<rev, OPENROUTER_API_KEY, knowledge_base, query, result, calls,
                   messages, response, raw_text, formatted>>

\* the corpus changes between ingestions: a file is written, replaced or removed
WriteFile ==
    \E f \in Files, s \in FileStates :
        /\ knowledge_base[f] # s
        /\ knowledge_base' = [knowledge_base EXCEPT ![f] = s]
        /\ pc' = "idle"
        /\ UNCHANGED <<rev, OPENROUTER_API_KEY, collection, loaded, query, result,
                       calls, messages, response, raw_text, formatted>>

-----------------------------------------------------------------------------
(* chatbot *)

Finish(q, res, cs, msgs, resp) ==
    /\ pc' = "answered"
    /\ query' = q
    /\ result' = res
    /\ calls' = cs
    /\ messages' = msgs
    /\ response' = resp
    /\ UNCHANGED <<rev, OPENROUTER_API_KEY, knowledge_base, collection, loaded,
                   raw_text, formatted>>

\* chatbot from the credential test to the end, given the retrieved context
Complete(q, ctx) ==
    LET msgs == BuildMessages(rev, q, ctx.docs) IN
    IF OPENROUTER_API_KEY = None
    THEN Finish(q, Return(IF rev = "bot" THEN KeyMissing_bot ELSE KeyMissing_app, <<>>),
                ctx.calls, msgs, NoReply)
    ELSE \E resp \in Replies :
            Finish(q, completion(rev, resp),
                   Append(ctx.calls, Call("post", IF resp.kind = "network_error"
                                                  THEN "fail" ELSE "ok")),
                   msgs, resp)

\* the tokens queries are made of: deny terms, scope terms, terms of one
\* revision only, a deny term inside a longer word ("syn" + "tax"), upper
\* case, blank and unrelated text
Tokens ==
    {<<"b", "u", "y">>,
     <<"B", "u", "y">>,
     <<"n", "a", "v">>,
     <<"N", "A", "V">>,
     <<"A", "r", "y", "z", "e", "n">>,
     <<"s", "t", "o", "c", "k">>,
     <<"w", "h", "i", "c", "h", " ">>,
     <<"r", "e", "t", "u", "r", "n">>,
     <<"t", "a", "x">>,
     <<"s", "y", "n">>,
     <<" ">>,
     <<"w", "e", "a", "t", "h", "e", "r">>}

\* the number of tokens in a query
MaxTokens == 2

RECURSIVE Flatten(_)
Flatten(parts) == IF parts = <<>> THEN <<>> ELSE Head(parts) \o Flatten(Tail(parts))

Queries == {Flatten(p) : p \in UNION {[1..n -> Tokens] : n \in 0..MaxTokens}}

\* chatbot with the retrieval made before the guardrail is consulted
chatbot_RetrieveFirst ==
    /\ pc = "idle"
    /\ \E q \in Queries, emb \in EmbedOutcomes, idx \in IndexOutcomesOf(rev) :
       \E hits \in Rankings(collection, n_results) :
          LET g == Guardrail(rev, q)
              ctx == get_context(rev, q, emb, idx, hits)
          IN  IF ctx.raised THEN Finish(q, Raise(ctx.exc), ctx.calls, <<>>, NoReply)
              ELSE IF g # "ALLOWED"
                   THEN Finish(q, Return(Refusal(rev, g), <<>>), ctx.calls, <<>>, NoReply)
              ELSE Complete(q, ctx)

\* chatbot(query): one call, from the guardrail to the returned string or the
\* exception that leaves it
chatbot ==
    /\ pc = "idle"
    /\ \E q \in Queries :
       LET g == Guardrail(rev, q) IN
       IF g # "ALLOWED"
       THEN Finish(q, Return(Refusal(rev, g), <<>>), <<>>, <<>>, NoReply)
       ELSE \E emb \in EmbedOutcomes :
            \E idx \in (IF emb = "ok" THEN IndexOutcomesOf(rev) ELSE {"error"}) :
            \E hits \in (IF idx \in {"ok", "type_error_then_ok"}
                         THEN Rankings(collection, n_results) ELSE {<<>>}) :
               LET ctx == get_context(rev, q, emb, idx, hits) IN
               IF ctx.raised
               THEN Finish(q, Raise(ctx.exc), ctx.calls, <<>>, NoReply)
               ELSE Complete(q, ctx)

\* the caller prints the answer and asks for the next query
ShowAnswer ==
    /\ pc = "answered"
    /\ pc' = "idle"
    /\ query' = <<>>
    /\ result' = NoResult
    /\ calls' = <<>>
    /\ messages' = <<>>
    /\ response' = NoReply
    /\ UNCHANGED <<rev, OPENROUTER_API_KEY, knowledge_base, collection, loaded,
                   raw_text, formatted>>

-----------------------------------------------------------------------------
(* Specifications *)

NoFiles == [f \in Files |-> Absent]

\* the corpora the process may find at start-up
StartCorpora ==
    {NoFiles,
     [NoFiles EXCEPT ![FileA] = TextFile(TextSix)],
     [NoFiles EXCEPT ![FileA] = TextFile(TextSix), ![FileB] = TextFile(TextPadded)]}

\* the state once the module is imported: the key resolved, the corpus ingested
Init ==
    /\ rev \in Revisions
    /\ OPENROUTER_API_KEY \in {None, ApiKey}
    /\ knowledge_base \in StartCorpora
    /\ collection = StartupCollection(knowledge_base)
    /\ loaded = load_documents(knowledge_base)
    /\ pc = "idle"
    /\ query = <<>>
    /\ result = NoResult
    /\ calls = <<>>
    /\ messages = <<>>
    /\ response = NoReply
    /\ raw_text = <<>>
    /\ formatted = <<>>

Next == chatbot \/ ShowAnswer

\* the chat facade: queries answered one at a time
Spec == Init /\ [][Next]_vars

NextIngest == WriteFile \/ ingest_documents

\* ingestion run again while the corpus changes
SpecIngest == Init /\ [][NextIngest]_vars

\* the pieces raw texts are made of
FormatTokens ==
    {<<" ">>, <<"\n">>, <<"\n", "\n">>, <<".">>, <<".", " ">>, <<"x">>,
     <<"#", "#", "#">>, <<"-", " ">>, <<"*", " ">>}

\* the number of pieces in a raw text
MaxParts == 4

RawTexts == {Flatten(p) : p \in UNION {[1..n -> FormatTokens] : n \in 0..MaxParts}}

InitFormat ==
    /\ rev = "bot"
    /\ OPENROUTER_API_KEY = None
    /\ knowledge_base = NoFiles
    /\ collection = {}
    /\ loaded = <<>>
    /\ pc = "idle"
    /\ query = <<>>
    /\ result = NoResult
    /\ calls = <<>>
    /\ messages = <<>>
    /\ response = NoReply
    /\ raw_text \in RawTexts
    /\ formatted = <<>>

\* one call of format_response(raw_text)
Format ==
    /\ pc = "idle"
    /\ pc' = "formatted"
    /\ formatted' = format_response(raw_text)
    /\ UNCHANGED <<rev, OPENROUTER_API_KEY, knowledge_base, collection, loaded, query,
                   result, calls, messages, response, raw_text>>

SpecFormat == InitFormat /\ [][Format]_vars

-----------------------------------------------------------------------------
(* The claims' vocabulary, stated on the query text and on what a run left *)

\* the query is empty or whitespace only
Blank(q) == \A i \in 1..Len(q) : IsSpace(q[i])

\* the lower-cased query contains a deny-list term
HasDenyTerm(r, q) == \E i \in 1..Len(banned(r)) : Contains(Lower(q), banned(r)[i])

\* the lower-cased query contains a finance or an Aryzen term
HasScopeTerm(r, q) ==
    \/ \E i \in 1..Len(finance_terms(r)) : Contains(Lower(q), finance_terms(r)[i])
    \/ \E i \in 1..Len(aryzen_terms(r)) : Contains(Lower(q), aryzen_terms(r)[i])

\* the query is one the guardrail is to let through
IsAllowed(r, q) == ~Blank(q) /\ ~HasDenyTerm(r, q) /\ HasScopeTerm(r, q)

OutOfScopeReply == Return(IF rev = "bot" THEN OutOfScope_bot ELSE OutOfScope_app, <<>>)
KeyMissingReply == Return(IF rev = "bot" THEN KeyMissing_bot ELSE KeyMissing_app, <<>>)

FixedRefusals == {Return(PleaseAsk, <<>>), Return(PolicyRefusal, <<>>), OutOfScopeReply}

\* the run made the call op (with any outcome)
Called(op) == \E i \in 1..Len(calls) : calls[i].op = op

\* the run went on to retrieval: its first external call embeds the query,
\* and it did not end with a refusal
WentToRetrieval ==
    /\ calls # <<>>
    /\ calls[1].op = "embed"
    /\ result \notin FixedRefusals

\* C1: a non-empty query whose lower-cased text contains a deny-list term gets
\* the fixed policy refusal, whether or not it also contains a scope term; it
\* is neither let through to retrieval nor answered as out of scope.
C1_DenyPrecedesScope ==
    (pc = "answered" /\ query # <<>> /\ HasDenyTerm(rev, query))
        => /\ result = Return(PolicyRefusal, <<>>)
           /\ ~WentToRetrieval
           /\ result # OutOfScopeReply

\* a query with a deny term and a scope term was refused
C1_Witness ==
    /\ pc = "answered"
    /\ HasDenyTerm(rev, query)
    /\ HasScopeTerm(rev, query)
    /\ result = Return(PolicyRefusal, <<>>)

\* C2 as stated: every non-empty query without a deny-list term goes on to
\* retrieval if and only if it contains a scope term, and otherwise gets the
\* fixed out-of-scope refusal.
C2_Original ==
    (pc = "answered" /\ query # <<>> /\ ~HasDenyTerm(rev, query))
        => /\ WentToRetrieval <=> HasScopeTerm(rev, query)
           /\ ~HasScopeTerm(rev, query) => result = OutOfScopeReply

\* C2 amended: every query that is not empty or whitespace-only and contains
\* no deny-list term goes on to retrieval if and only if it contains a scope
\* term, and otherwise gets the fixed out-of-scope refusal.
C2_ScopeDecides ==
    (pc = "answered" /\ ~Blank(query) /\ ~HasDenyTerm(rev, query))
        => /\ WentToRetrieval <=> HasScopeTerm(rev, query)
           /\ ~HasScopeTerm(rev, query) => result = OutOfScopeReply

\* a query with a scope term and no deny term went on to retrieval
C2_Witness ==
    /\ pc = "answered"
    /\ ~Blank(query)
    /\ ~HasDenyTerm(rev, query)
    /\ HasScopeTerm(rev, query)
    /\ WentToRetrieval

\* C3: a run whose query is blank, contains a deny term or contains no scope
\* term returns its fixed refusal having made no external call at all: no
\* embedding, no index query, no request to the completion endpoint.
C3_RefusalBeforeAnyCall ==
    (pc = "answered" /\ ~IsAllowed(rev, query))
        => /\ result = (IF Blank(query) THEN Return(PleaseAsk, <<>>)
                        ELSE IF HasDenyTerm(rev, query) THEN Return(PolicyRefusal, <<>>)
                        ELSE OutOfScopeReply)
           /\ calls = <<>>
           /\ response = NoReply
           /\ messages = <<>>

\* an out-of-scope query was refused
C3_Witness ==
    /\ pc = "answered"
    /\ ~Blank(query)
    /\ ~HasDenyTerm(rev, query)
    /\ ~HasScopeTerm(rev, query)
    /\ result = OutOfScopeReply

\* C4: chatbot always ends by returning a string; no failure of the
\* embedding, the index query, the transport, the body parsing or the
\* response shape leaves it as an exception.
C4_NoExceptionEscapes == pc = "answered" => result.kind = "return"

\* C5: when embedding the query fails, get_context gives an empty context
\* instead of raising, and chatbot goes on to the completion call with a
\* message sequence that has no context message.
C5_EmbeddingFailureDegrades ==
    (pc = "answered" /\ \E i \in 1..Len(calls) : calls[i] = Call("embed", "fail"))
        => /\ result.kind = "return"
           /\ Len(messages) = 2
           /\ OPENROUTER_API_KEY # None => Called("post")

\* C6: with no credential configured, chatbot on an allowed query returns the
\* fixed key-missing message, and the run issues no request to the
\* completion endpoint.
C6_NoKeyNoRequest ==
    (pc = "answered" /\ OPENROUTER_API_KEY = None /\ IsAllowed(rev, query))
        => /\ result = KeyMissingReply
           /\ ~Called("post")

\* C7: for an allowed query with a credential, when the endpoint answers with
\* the success shape and content c, chatbot returns format_response(c), never
\* the raw payload.
C7_SuccessIsFormatted ==
    (/\ pc = "answered"
     /\ OPENROUTER_API_KEY # None
     /\ IsAllowed(rev, query)
     /\ response.kind = "json"
     /\ response.shape = "success")
        => result = Return("", format_response(response.text))

\* C8: after an ingestion has run, the index holds exactly the eligible
\* documents of the corpus as that ingestion read it: nothing of an earlier
\* ingestion survives, nothing is duplicated.
C8_IndexReflectsLatestIngestion ==
    pc = "ingested"
        => /\ collection = Range(loaded)
           /\ Cardinality(collection) = Len(loaded)

\* C9: format_response never returns the empty string; for empty input it
\* returns the sentinel "No response from model.".
C9_NeverEmpty ==
    pc = "formatted"
        => /\ formatted # <<>>
           /\ raw_text = <<>> => formatted = NoResponse

\* position i of s starts a line
LineStart(s, i) == i = 1 \/ s[i - 1] = "\n"

\* s contains '###' or a line starting with '- ' or '* '
HasStructuralMarker(s) ==
    \/ Contains(s, Hashes)
    \/ \E i \in 1..Len(s) :
          LineStart(s, i) /\ (MatchAt(s, <<"-", " ">>, i) \/ MatchAt(s, <<"*", " ">>, i))

\* s with every run of three or more newlines cut to two, all else kept
RECURSIVE CollapseRuns(_)
CollapseRuns(s) ==
    IF Len(s) < 3 THEN s
    ELSE IF MatchAt(s, NL3, 1) THEN CollapseRuns(Tail(s))
    ELSE <<Head(s)>> \o CollapseRuns(Tail(s))

\* C10: for a raw text with a structural marker, format_response returns the
\* text (surrounding whitespace aside) with each run of blank lines collapsed
\* to one blank line and everything else unchanged.
C10_MarkdownOnlyCollapsed ==
    (pc = "formatted" /\ HasStructuralMarker(raw_text))
        => /\ formatted = CollapseRuns(Strip(raw_text))
           /\ ~Contains(formatted, NL3)

====
